---- MODULE Spec2Model ----
(***************************************************************************)
(* Analyze India backend: the live fan-out subsystem (ingestion queue,     *)
(* broadcaster, connection registry, producers) and the subscription       *)
(* request path of src/main.py, with the Subscriber table of               *)
(* src/database.py.                                                        *)
(***************************************************************************)
EXTENDS Integers, Sequences, FiniteSets, TLC

\* ---------------------------------------------------------------- bounds
MaxConn == 2
MaxEvents == 2
MaxReq == 3

Conns == 1..MaxConn

\* the 'email' values a request body can carry: absent (email.get gives
\* None), the empty string, and two addresses
NoEmail == "<none>"
Emails == {NoEmail, "", "a@x.com", "b@x.com"}

\* where the persistence collaborator raises during one request
Faults == {"none", "lookup", "commit", "refresh"}

VARIABLES
    BEARER,        \* TWITTER_BEARER_TOKEN is set
    tweepy,        \* the tweepy import succeeded
    conf,          \* the mail ConnectionConfig was built
    phase,         \* "init" before on_startup, "up", "down" after shutdown
    tweet_queue,   \* app.state.tweet_queue (asyncio.Queue, unbounded)
    ready,         \* callbacks handed to the loop by call_soon_threadsafe
    counter,       \* simulate_tweets' counter
    nTweets,       \* tweets the stream has delivered to on_tweet
    simTask,       \* "none" | "running"
    liveThread,    \* "none" | "running" | "dead"
    broadcaster,   \* "none" | "running"
    active,        \* TweetManager.active
    hpc,           \* position of websocket_tweets for each connection
    peer,          \* "up" | "gone": the client end of each connection
    bpc,           \* broadcaster position: "get" | "send"
    msg,           \* the event being fanned out (NoMsg between fan-outs)
    snap,          \* the rest of list(self.active) still to be sent to
    remove,        \* TweetManager.broadcast's remove list
    enq,           \* history: the events in the order they were enqueued
    nDeq,          \* history: number of events dequeued so far
    sent,          \* history: the events delivered to each connection
    snapshot,      \* history: list(self.active) of the event being fanned out
    recordReg,     \* history switch: registration times are recorded
    regAt,         \* history: Len(enq) when the connection was registered
    deqAt,         \* history: nDeq when the connection was registered
    failed,        \* history: connections a send failure was observed on
    subscribers,   \* rows of the Subscriber table
    nextId,        \* the table's autoincrement primary key
    tasks,         \* BackgroundTasks scheduled and not yet run
    responses,     \* history: the response to each subscribe request
    trace,         \* history: commits, acknowledgments and mail runs in order
    log            \* logger records of the background paths

cfgVars == <<BEARER, tweepy, conf>>
prodVars == <<tweet_queue, ready, counter, nTweets, enq>>
taskVars == <<simTask, liveThread, broadcaster>>
connVars == <<hpc, peer, recordReg, regAt, deqAt>>
bcastVars == <<bpc, msg, snap, remove, nDeq, sent, snapshot, failed>>
subVars == <<subscribers, nextId, tasks, responses, trace>>
vars == <<cfgVars, phase, prodVars, taskVars, active, connVars, bcastVars,
          subVars, log>>

NoMsg == <<"none", 0>>

\* ---------------------------------------------------------------- helpers
\* list(self.active): the members of the set, each once, in some order
ListOf(S) ==
    {s \in [1..Cardinality(S) -> S] : \A i, j \in 1..Cardinality(S) :
                                          i # j => s[i] # s[j]}

\* ---------------------------------------------------------------- Init
Init ==
    /\ BEARER \in BOOLEAN
    /\ tweepy \in BOOLEAN
    /\ conf \in BOOLEAN
    /\ phase = "init"
    /\ tweet_queue = <<>>
    /\ ready = <<>>
    /\ counter = 1
    /\ nTweets = 0
    /\ simTask = "none"
    /\ liveThread = "none"
    /\ broadcaster = "none"
    /\ active = {}
    /\ hpc = [c \in Conns |-> "idle"]
    /\ peer = [c \in Conns |-> "up"]
    /\ bpc = "get"
    /\ msg = NoMsg
    /\ snap = <<>>
    /\ remove = <<>>
    /\ enq = <<>>
    /\ nDeq = 0
    /\ sent = [c \in Conns |-> <<>>]
    /\ snapshot = {}
    /\ recordReg \in BOOLEAN
    /\ regAt = [c \in Conns |-> 0]
    /\ deqAt = [c \in Conns |-> 0]
    /\ failed = {}
    /\ subscribers = <<>>
    /\ nextId = 1
    /\ tasks = <<>>
    /\ responses = <<>>
    /\ trace = <<>>
    /\ log = <<>>

\* the fan-out subsystem never reads the mail configuration
InitFan == Init /\ conf /\ ~recordReg

\* the same, with the registration times recorded and the two producer
\* selections that differ (credentials and client library both there, or not)
InitReg == Init /\ conf /\ recordReg /\ BEARER = tweepy

\* the subscription path never reads the producer configuration
InitSub == Init /\ ~BEARER /\ ~tweepy /\ ~recordReg

\* ---------------------------------------------------------------- startup
\* on_startup: the queue, the broadcaster task, then the live adapter thread
\* or the simulator task
on_startup ==
    /\ phase = "init"
    /\ phase' = "up"
    /\ tweet_queue' = <<>>
    /\ broadcaster' = "running"
    /\ IF BEARER /\ tweepy
       THEN liveThread' = "running" /\ simTask' = simTask
       ELSE simTask' = "running" /\ liveThread' = liveThread
    /\ UNCHANGED <<cfgVars, ready, counter, nTweets, enq, active, connVars,
                   bcastVars, subVars, log>>

\* ---------------------------------------------------------------- producers
\* asyncio.Queue() is built without a maxsize: the default, 0, is 'no limit'
maxsize == 0

\* a queue that holds one item
full_bounded(q) == Len(q) >= 1

\* asyncio.Queue.full
full(q) == IF maxsize <= 0 THEN FALSE ELSE Len(q) >= maxsize

\* a simulator that counts before it builds the event
simulate_tweets_preinc ==
    /\ phase = "up"
    /\ simTask = "running"
    /\ counter <= MaxEvents
    /\ ~full(tweet_queue)
    /\ LET fake == <<"sim", counter + 1>> IN
         /\ tweet_queue' = Append(tweet_queue, fake)
         /\ enq' = Append(enq, fake)
    /\ counter' = counter + 1
    /\ UNCHANGED <<cfgVars, phase, ready, nTweets, taskVars, active, connVars,
                   bcastVars, subVars, log>>

\* simulate_tweets: one pass of the loop (sleep, build, put, counter += 1)
simulate_tweets ==
    /\ phase = "up"
    /\ simTask = "running"
    /\ counter <= MaxEvents
    /\ ~full(tweet_queue)
    /\ LET fake == <<"sim", counter>> IN
         /\ tweet_queue' = Append(tweet_queue, fake)
         /\ enq' = Append(enq, fake)
    /\ counter' = counter + 1
    /\ UNCHANGED <<cfgVars, phase, ready, nTweets, taskVars, active, connVars,
                   bcastVars, subVars, log>>

\* an on_tweet that puts the event into the queue from the adapter thread
on_tweet_direct ==
    /\ phase = "up"
    /\ liveThread = "running"
    /\ nTweets < MaxEvents
    /\ nTweets' = nTweets + 1
    /\ tweet_queue' = Append(tweet_queue, <<"tweet", nTweets + 1>>)
    /\ enq' = Append(enq, <<"tweet", nTweets + 1>>)
    /\ UNCHANGED <<cfgVars, phase, ready, counter, taskVars, active,
                   connVars, bcastVars, subVars, log>>

\* MyStream.on_tweet, on the adapter thread: the event is handed to the loop
on_tweet ==
    /\ phase = "up"
    /\ liveThread = "running"
    /\ nTweets < MaxEvents
    /\ nTweets' = nTweets + 1
    /\ ready' = Append(ready, <<"tweet", nTweets + 1>>)
    /\ UNCHANGED <<cfgVars, phase, tweet_queue, counter, enq, taskVars, active,
                   connVars, bcastVars, subVars, log>>

\* the loop runs the oldest handed-over callback: queue.put_nowait(msg),
\* which raises QueueFull, losing the event, on a full queue
put_nowait ==
    /\ phase = "up"
    /\ ready # <<>>
    /\ IF full(tweet_queue)
       THEN /\ log' = Append(log, "QueueFull")
            /\ UNCHANGED <<tweet_queue, enq>>
       ELSE /\ tweet_queue' = Append(tweet_queue, Head(ready))
            /\ enq' = Append(enq, Head(ready))
            /\ log' = log
    /\ ready' = Tail(ready)
    /\ UNCHANGED <<cfgVars, phase, counter, nTweets, taskVars, active,
                   connVars, bcastVars, subVars>>

\* a stream failure that falls back to the simulator
stream_error_failover ==
    /\ phase = "up"
    /\ liveThread = "running"
    /\ liveThread' = "dead"
    /\ simTask' = "running"
    /\ log' = Append(log, "Twitter streaming error")
    /\ UNCHANGED <<cfgVars, phase, prodVars, broadcaster, active, connVars,
                   bcastVars, subVars>>

\* start_twitter_stream: stream.sample() raises, the error is logged and the
\* thread ends
stream_error ==
    /\ phase = "up"
    /\ liveThread = "running"
    /\ liveThread' = "dead"
    /\ log' = Append(log, "Twitter streaming error")
    /\ UNCHANGED <<cfgVars, phase, prodVars, simTask, broadcaster, active,
                   connVars, bcastVars, subVars>>

\* ---------------------------------------------------------------- registry
\* a disconnect that leaves the registry as it is
disconnect_keep(S, ws) == S

\* a disconnect that puts an absent connection into the registry
disconnect_toggle(S, ws) == IF ws \in S THEN S \ {ws} ELSE S \cup {ws}

\* TweetManager.disconnect: set.discard
disconnect(S, ws) == S \ {ws}

\* the second loop of TweetManager.broadcast: disconnect every member of remove
RECURSIVE disconnect_all(_, _)
disconnect_all(S, r) ==
    IF r = <<>> THEN S ELSE disconnect_all(disconnect(S, Head(r)), Tail(r))

\* websocket_tweets -> TweetManager.connect, first half: await websocket.accept()
\* Connections are numbered in the order their handlers start.
ws_accept(c) ==
    /\ phase = "up"
    /\ hpc[c] = "idle"
    /\ \A d \in Conns : d < c => hpc[d] # "idle"
    /\ hpc' = [hpc EXCEPT ![c] = "accepted"]
    /\ UNCHANGED <<cfgVars, phase, prodVars, taskVars, active, peer, recordReg,
                   regAt, deqAt, bcastVars, subVars, log>>

\* a connect whose add is seen by a fan-out in progress (iteration over the
\* live set instead of a snapshot)
connect_live(c) ==
    /\ phase = "up"
    /\ hpc[c] = "accepted"
    /\ active' = active \cup {c}
    /\ hpc' = [hpc EXCEPT ![c] = "receiving"]
    /\ regAt' = IF recordReg THEN [regAt EXCEPT ![c] = Len(enq)] ELSE regAt
    /\ deqAt' = IF recordReg THEN [deqAt EXCEPT ![c] = nDeq] ELSE deqAt
    /\ snap' = IF bpc = "send" THEN Append(snap, c) ELSE snap
    /\ UNCHANGED <<cfgVars, phase, prodVars, taskVars, peer, recordReg, bpc,
                   msg, remove, nDeq, sent, snapshot, failed, subVars, log>>

\* TweetManager.connect, second half: self.active.add(websocket); the handler
\* then waits in receive_text
connect(c) ==
    /\ phase = "up"
    /\ hpc[c] = "accepted"
    /\ active' = active \cup {c}
    /\ hpc' = [hpc EXCEPT ![c] = "receiving"]
    /\ regAt' = IF recordReg THEN [regAt EXCEPT ![c] = Len(enq)] ELSE regAt
    /\ deqAt' = IF recordReg THEN [deqAt EXCEPT ![c] = nDeq] ELSE deqAt
    /\ UNCHANGED <<cfgVars, phase, prodVars, taskVars, peer, recordReg, bcastVars,
                   subVars, log>>

\* the client closes or loses its end of the connection
client_gone(c) ==
    /\ phase = "up"
    /\ hpc[c] \in {"accepted", "receiving"}
    /\ peer[c] = "up"
    /\ peer' = [peer EXCEPT ![c] = "gone"]
    /\ UNCHANGED <<cfgVars, phase, prodVars, taskVars, active, hpc, recordReg,
                   regAt, deqAt, bcastVars, subVars, log>>

\* a handler that ends without the disconnect
ws_receive_error_leak(c) ==
    /\ phase = "up"
    /\ hpc[c] = "receiving"
    /\ peer[c] = "gone"
    /\ hpc' = [hpc EXCEPT ![c] = "done"]
    /\ UNCHANGED <<cfgVars, phase, prodVars, taskVars, active, peer, recordReg,
                   regAt, deqAt, bcastVars, subVars, log>>

\* websocket_tweets: receive_text raises, the handler disconnects and ends
ws_receive_error(c) ==
    /\ phase = "up"
    /\ hpc[c] = "receiving"
    /\ peer[c] = "gone"
    /\ active' = disconnect(active, c)
    /\ hpc' = [hpc EXCEPT ![c] = "done"]
    /\ UNCHANGED <<cfgVars, phase, prodVars, taskVars, peer, recordReg, regAt,
                   deqAt, bcastVars, subVars, log>>

\* ---------------------------------------------------------------- broadcaster
\* ws.send_text succeeds on a connection whose client is still there
send_ok(ws) == peer[ws] = "up"

\* a failure that ends the for loop
after_failure_abort(rest) == <<>>

\* the except clause inside the for loop: the loop goes on with the rest
after_failure(rest) == rest

\* a queue that hands out its newest item first
queue_get_lifo(q) == <<q[Len(q)], SubSeq(q, 1, Len(q) - 1)>>

\* asyncio.Queue.get on a non-empty queue: <<the oldest item, the rest>>
queue_get(q) == <<Head(q), Tail(q)>>

\* json.dumps(message) succeeds on the events of the two producers, which are
\* dicts of strings and integers
json_dumps_ok(m) == m[1] \in {"sim", "tweet"}

\* a broadcaster that puts an event nobody is there for back into the queue
broadcast_start_requeue ==
    /\ phase = "up"
    /\ broadcaster = "running"
    /\ bpc = "get"
    /\ tweet_queue # <<>>
    /\ nDeq' = nDeq + 1
    /\ remove' = <<>>
    /\ log' = log
    /\ \E s \in ListOf(active) :
         /\ snap' = s
         /\ IF s = <<>>
            THEN /\ bpc' = "get" /\ msg' = NoMsg /\ snapshot' = {}
                 /\ tweet_queue' = Append(Tail(tweet_queue), Head(tweet_queue))
            ELSE /\ bpc' = "send"
                 /\ msg' = queue_get(tweet_queue)[1]
                 /\ snapshot' = active
                 /\ tweet_queue' = queue_get(tweet_queue)[2]
    /\ UNCHANGED <<cfgVars, phase, ready, counter, nTweets, enq, taskVars,
                   active, connVars, sent, failed, subVars>>

\* tweet_broadcaster: queue.get() returns an event and TweetManager.broadcast
\* starts: json.dumps, remove = [], list(self.active).  With an empty registry
\* both loops are empty and the broadcaster is back at queue.get().  An
\* exception of json.dumps leaves broadcast, is logged by tweet_broadcaster
\* and the loop goes on.
broadcast_start ==
    /\ phase = "up"
    /\ broadcaster = "running"
    /\ bpc = "get"
    /\ tweet_queue # <<>>
    /\ tweet_queue' = queue_get(tweet_queue)[2]
    /\ nDeq' = nDeq + 1
    /\ remove' = <<>>
    /\ IF ~json_dumps_ok(queue_get(tweet_queue)[1])
       THEN /\ log' = Append(log, "Error broadcasting tweet")
            /\ bpc' = "get" /\ msg' = NoMsg /\ snap' = <<>> /\ snapshot' = {}
       ELSE /\ log' = log
            /\ \E s \in ListOf(active) :
                 /\ snap' = s
                 /\ IF s = <<>>
                    THEN bpc' = "get" /\ msg' = NoMsg /\ snapshot' = {}
                    ELSE /\ bpc' = "send"
                         /\ msg' = queue_get(tweet_queue)[1]
                         /\ snapshot' = active
    /\ UNCHANGED <<cfgVars, phase, ready, counter, nTweets, enq, taskVars,
                   active, connVars, sent, failed, subVars>>

\* a fan-out in which a failed send ends the broadcaster task
broadcast_send_fatal ==
    /\ phase = "up"
    /\ broadcaster = "running"
    /\ bpc = "send"
    /\ LET ws == Head(snap)
           ok == send_ok(ws)
       IN  /\ sent' = IF ok THEN [sent EXCEPT ![ws] = Append(@, msg)] ELSE sent
           /\ failed' = IF ok THEN failed ELSE failed \cup {ws}
           /\ broadcaster' = IF ok THEN broadcaster ELSE "dead"
           /\ snap' = Tail(snap)
           /\ IF ok /\ Tail(snap) = <<>>
              THEN bpc' = "get" /\ msg' = NoMsg /\ snapshot' = {}
              ELSE bpc' = "send" /\ UNCHANGED <<msg, snapshot>>
    /\ UNCHANGED <<cfgVars, phase, prodVars, simTask, liveThread, active,
                   connVars, remove, nDeq, subVars, log>>

\* one pass of the for loop of TweetManager.broadcast: await ws.send_text(text),
\* a failure appends ws to remove.  After the last pass the second loop runs
\* (no suspension point) and the broadcaster is back at queue.get().
broadcast_send ==
    /\ phase = "up"
    /\ broadcaster = "running"
    /\ bpc = "send"
    /\ LET ws == Head(snap)
           ok == send_ok(ws)
           rest == IF ok THEN Tail(snap) ELSE after_failure(Tail(snap))
           rem == IF ok THEN remove ELSE Append(remove, ws)
       IN  /\ sent' = IF ok THEN [sent EXCEPT ![ws] = Append(@, msg)] ELSE sent
           /\ failed' = IF ok THEN failed ELSE failed \cup {ws}
           /\ snap' = rest
           /\ IF rest = <<>>
              THEN /\ active' = disconnect_all(active, rem)
                   /\ remove' = <<>>
                   /\ bpc' = "get"
                   /\ msg' = NoMsg
                   /\ snapshot' = {}
              ELSE /\ active' = active
                   /\ remove' = rem
                   /\ bpc' = "send"
                   /\ UNCHANGED <<msg, snapshot>>
    /\ UNCHANGED <<cfgVars, phase, prodVars, taskVars, connVars, nDeq,
                   subVars, log>>

\* ---------------------------------------------------------------- shutdown
\* The process stops.  main.py registers no shutdown handler and keeps no
\* handle of the tasks it created: the tasks and the daemon thread end where
\* they are, and the registry is left as it is.
shutdown ==
    /\ phase = "up"
    /\ phase' = "down"
    /\ broadcaster' = "cancelled"
    /\ simTask' = IF simTask = "running" THEN "cancelled" ELSE simTask
    /\ liveThread' = IF liveThread = "running" THEN "dead" ELSE liveThread
    /\ UNCHANGED <<cfgVars, prodVars, active, connVars, bcastVars, subVars,
                   log>>

\* ---------------------------------------------------------------- subscription
\* a lookup that never finds a row
find_by_email_none(rows, e) == FALSE

\* db.exec(select(Subscriber).where(Subscriber.email == user_email)).first()
\* finds a row
find_by_email(rows, e) == \E i \in 1..Len(rows) : rows[i].email = e

\* a check that lets the empty string through
email_missing_none_only(e) == e = NoEmail

\* 'if not user_email': None and the empty string are both falsy
email_missing(e) == e = NoEmail \/ e = ""

\* Subscriber.email is Field(unique=True): the commit of a second row with
\* the same email raises
unique_ok(rows, e) == \A i \in 1..Len(rows) : rows[i].email # e

Ack == "Subscription successful. A welcome email is being sent (if configured)."

\* a welcome mail scheduled whatever the mail configuration
welcome_scheduled_always == TRUE

\* 'if conf: background_tasks.add_task(send_welcome_email, user_email)'
welcome_scheduled == conf

ServerError == "Server error during subscription."

\* a handler whose 'except Exception' also takes the conflict raised inside
\* the try block
subscribe_outcome_swallow(e, f) ==
    IF email_missing(e)
    THEN <<422, "Email is required.", subscribers, nextId, FALSE>>
    ELSE IF f = "lookup" \/ find_by_email(subscribers, e)
            \/ f = "commit" \/ ~unique_ok(subscribers, e)
    THEN <<500, ServerError, subscribers, nextId, FALSE>>
    ELSE LET rows == Append(subscribers,
                            [id |-> nextId, email |-> e, is_active |-> TRUE])
         IN  IF f = "refresh"
             THEN <<500, ServerError, rows, nextId + 1, FALSE>>
             ELSE <<200, Ack, rows, nextId + 1, welcome_scheduled>>

\* the outcome of one subscribe_user request with the given body and the
\* given persistence fault: <<status, detail, rows, nextId, scheduled>>
subscribe_outcome(e, f) ==
    IF email_missing(e)
    THEN <<422, "Email is required.", subscribers, nextId, FALSE>>
    ELSE IF f = "lookup"
    THEN <<500, ServerError, subscribers, nextId, FALSE>>
    ELSE IF find_by_email(subscribers, e)
    THEN <<400, "Email already subscribed.", subscribers, nextId, FALSE>>
    ELSE IF f = "commit" \/ ~unique_ok(subscribers, e)
    THEN <<500, ServerError, subscribers, nextId, FALSE>>
    ELSE LET rows == Append(subscribers,
                            [id |-> nextId, email |-> e, is_active |-> TRUE])
         IN  IF f = "refresh"
             THEN <<500, ServerError, rows,
                    nextId + 1, FALSE>>
             ELSE <<200, Ack, rows, nextId + 1, welcome_scheduled>>

Entry(op, e, ok) == [op |-> op, email |-> e, ok |-> ok]

\* a request path that awaits the welcome mail before it returns
request_trace_await(e, committed, status, scheduled) ==
    (IF committed THEN <<Entry("commit", e, TRUE)>> ELSE <<>>)
    \o (IF scheduled THEN <<Entry("mail", e, TRUE)>> ELSE <<>>)
    \o (IF status = 200 THEN <<Entry("ack", e, TRUE)>> ELSE <<>>)

\* what the request path of subscribe_user does, in order: db.commit(), then
\* (add_task only schedules) the return of the acknowledgment
request_trace(e, committed, status, scheduled) ==
    (IF committed THEN <<Entry("commit", e, TRUE)>> ELSE <<>>)
    \o (IF status = 200 THEN <<Entry("ack", e, TRUE)>> ELSE <<>>)

\* subscribe_user: the handler has no suspension point, it runs as one step
subscribe_user(e, f) ==
    /\ phase = "up"
    /\ Len(responses) < MaxReq
    /\ LET o == subscribe_outcome(e, f) IN
         /\ subscribers' = o[3]
         /\ nextId' = o[4]
         /\ tasks' = IF o[5] THEN Append(tasks, e) ELSE tasks
         /\ responses' = Append(responses,
                [email |-> e, fault |-> f, status |-> o[1], detail |-> o[2]])
         /\ trace' = trace \o request_trace(e, Len(o[3]) > Len(subscribers),
                                             o[1], o[5])
         /\ log' = IF o[1] = 500
                   THEN Append(log, "Error during subscription") ELSE log
    /\ UNCHANGED <<cfgVars, phase, prodVars, taskVars, active, connVars,
                   bcastVars>>

\* a welcome mail whose failure undoes the subscription
send_welcome_email_rollback(okSend) ==
    /\ phase = "up"
    /\ tasks # <<>>
    /\ tasks' = Tail(tasks)
    /\ trace' = Append(trace, Entry("mail", Head(tasks), okSend))
    /\ log' = Append(log, IF ~conf THEN "Skipping email send"
                          ELSE IF okSend THEN "Welcome email sent"
                          ELSE "Failed to send welcome email")
    /\ subscribers' = IF okSend THEN subscribers
                      ELSE SelectSeq(subscribers,
                                     LAMBDA r : r.email # Head(tasks))
    /\ UNCHANGED <<cfgVars, phase, prodVars, taskVars, active, connVars,
                   bcastVars, nextId, responses>>

\* send_welcome_email, run by BackgroundTasks after the response: the send
\* succeeds or raises inside the try block
send_welcome_email(okSend) ==
    /\ phase = "up"
    /\ tasks # <<>>
    /\ tasks' = Tail(tasks)
    /\ trace' = Append(trace, Entry("mail", Head(tasks), okSend))
    /\ log' = Append(log, IF ~conf THEN "Skipping email send"
                          ELSE IF okSend THEN "Welcome email sent"
                          ELSE "Failed to send welcome email")
    /\ UNCHANGED <<cfgVars, phase, prodVars, taskVars, active, connVars,
                   bcastVars, subscribers, nextId, responses>>

\* ---------------------------------------------------------------- specifications
\* the fan-out subsystem
Next ==
    \/ on_startup
    \/ simulate_tweets
    \/ on_tweet
    \/ put_nowait
    \/ stream_error
    \/ \E c \in Conns : ws_accept(c)
    \/ \E c \in Conns : connect(c)
    \/ \E c \in Conns : client_gone(c)
    \/ \E c \in Conns : ws_receive_error(c)
    \/ broadcast_start
    \/ broadcast_send
    \/ shutdown

Spec == InitFan /\ [][Next]_vars

SpecReg == InitReg /\ [][Next]_vars

\* the event loop runs every task that is ready: the broadcaster when an event
\* waits or a send has returned or failed, a handler whose accept or
\* receive_text has returned or raised
Fairness ==
    /\ WF_vars(broadcast_start)
    /\ WF_vars(broadcast_send)
    /\ \A c \in Conns : WF_vars(connect(c))
    /\ \A c \in Conns : WF_vars(ws_receive_error(c))

\* the two producer selections that differ
InitLive == InitFan /\ BEARER = tweepy

SpecLive == InitLive /\ [][Next]_vars /\ Fairness

\* the subscription request path
NextSub ==
    \/ on_startup
    \/ \E e \in Emails, f \in Faults : subscribe_user(e, f)
    \/ \E okSend \in BOOLEAN : send_welcome_email(okSend)
    \/ shutdown

SpecSub == InitSub /\ [][NextSub]_vars

\* ---------------------------------------------------------------- properties
Last(q) == q[Len(q)]

\* the place of an event in the enqueue order (0 when it was never enqueued)
Pos(e) == IF \E i \in 1..Len(enq) : enq[i] = e
          THEN CHOOSE i \in 1..Len(enq) : enq[i] = e
          ELSE 0

\* s picks entries of t at strictly increasing places
IsSubseq(s, t) ==
    \E f \in [1..Len(s) -> 1..Len(t)] :
        /\ \A i \in 1..Len(s) : t[f[i]] = s[i]
        /\ \A i, j \in 1..Len(s) : i < j => f[i] < f[j]

\* C1: the events sent to any one connection are a subsequence of the enqueue
\* order: none out of order, none sent twice.
C1_DeliveryInEnqueueOrder ==
    \A c \in Conns : IsSubseq(sent[c], enq)

\* C1 witness: one connection has been sent two events
C1_TwoEventsDelivered ==
    \E c \in Conns : Len(sent[c]) >= 2

\* C2: when the fan-out of an event ends, every connection of its snapshot
\* has been sent the event, except those whose own send failed.
C2_FailureDoesNotAbortFanOut ==
    [][(bpc = "send" /\ bpc' = "get") =>
          \A c \in snapshot :
              \/ c \in failed'
              \/ (sent'[c] # <<>> /\ Last(sent'[c]) = msg)]_vars

\* C2 witness: the first fan-out has ended with a failed send on one
\* connection and a delivery to another
C2_FailureAndDelivery ==
    \E c, d \in Conns :
        /\ nDeq = 1 /\ bpc = "get"
        /\ c \in failed /\ sent[c] = <<>>
        /\ sent[d] = <<enq[1]>>

\* C3: a connection on which a send failed is out of the registry when that
\* broadcast ends, and nothing is sent to it afterwards.
C3_FailedConnectionRemoved ==
    [][/\ bpc' = "get" => failed' \cap active' = {}
       /\ \A c \in failed : sent'[c] = sent[c]]_vars

\* C3 witness: a later event is being fanned out without a connection that
\* failed earlier and whose handler has not ended yet
C3_LaterFanOutWithoutFailed ==
    \E c \in failed :
        /\ hpc[c] = "receiving" /\ c \notin active
        /\ bpc = "send" /\ c \notin snapshot /\ snapshot # {}

NewResponse == Len(responses') = Len(responses) + 1

Count(rows, e) == Cardinality({i \in 1..Len(rows) : rows[i].email = e})

\* C4: the table never holds two rows with one email; a request (the
\* persistence layer working) for an email with no row is acknowledged and
\* adds exactly one row, and a request for an email that has a row gets
\* 'Email already subscribed.' and adds none.
C4_OneRecordPerEmail ==
    [][/\ \A e \in Emails : Count(subscribers', e) <= 1
       /\ (NewResponse /\ Last(responses').fault = "none"
           /\ Last(responses').email \notin {NoEmail, ""}) =>
            LET r == Last(responses') IN
              IF Count(subscribers, r.email) = 0
              THEN /\ r.status = 200
                   /\ Len(subscribers') = Len(subscribers) + 1
                   /\ Count(subscribers', r.email) = 1
              ELSE /\ r.status = 400
                   /\ r.detail = "Email already subscribed."
                   /\ subscribers' = subscribers]_vars

\* C4 witness: an email was subscribed and a later request for it rejected
C4_SecondSubscribeRejected ==
    \E i, j \in 1..Len(responses) :
        /\ i < j
        /\ responses[i].email = responses[j].email
        /\ responses[i].status = 200
        /\ responses[j].status = 400
        /\ Count(subscribers, responses[i].email) = 1

\* C5: a request with an absent or empty email gets 'Email is required.',
\* changes no row and schedules no welcome mail.
C5_MissingEmailRejected ==
    [][(NewResponse /\ Last(responses').email \in {NoEmail, ""}) =>
          /\ Last(responses').status = 422
          /\ Last(responses').detail = "Email is required."
          /\ subscribers' = subscribers
          /\ nextId' = nextId
          /\ tasks' = tasks]_vars

\* C5 witness: an empty and an absent email were both rejected
C5_EmptyAndAbsentRejected ==
    \E i, j \in 1..Len(responses) :
        /\ responses[i].email = "" /\ responses[i].status = 422
        /\ responses[j].email = NoEmail /\ responses[j].status = 422

MailRan == Len(trace') = Len(trace) + 1 /\ Last(trace').op = "mail"

C8_AckAfterCommitBeforeMail ==
    \A k \in 1..Len(trace) :
        /\ trace[k].op = "ack" =>
              k > 1 /\ trace[k - 1] = Entry("commit", trace[k].email, TRUE)
        /\ trace[k].op = "mail" =>
              \E j \in 2..(k - 1) :
                  /\ trace[j] = Entry("ack", trace[k].email, TRUE)
                  /\ trace[j - 1] = Entry("commit", trace[k].email, TRUE)

\* C8 witness: a request was acknowledged while its welcome mail had not run,
\* and the mail of an earlier request had
C8_AckWhileMailPending ==
    /\ tasks # <<>>
    /\ \E k \in 1..Len(trace) : trace[k].op = "mail"
    /\ Last(trace).op = "ack"

\* C9: after shutdown no fan-out is left cut short and the registry holds
\* no open connection.
C9_ShutdownClosesEverything ==
    phase = "down" =>
        /\ bpc = "get"
        /\ \A c \in active : hpc[c] = "done"

\* C10: once started, exactly one producer variant has been started, the
\* live adapter when credentials and client library are there and the
\* simulator otherwise, whatever happens to the adapter later.
C10_ExactlyOneProducer ==
    /\ phase = "init" => simTask = "none" /\ liveThread = "none"
    /\ phase # "init" =>
          /\ (liveThread # "none") = (BEARER /\ tweepy)
          /\ (simTask # "none") = ~(BEARER /\ tweepy)

\* C10 witness: the live adapter has failed and no simulator runs
C10_AdapterDeadNoSimulator ==
    phase = "up" /\ liveThread = "dead" /\ simTask = "none"

\* C6 as stated: no event enqueued before a connection was registered is
\* sent to it
C6_NothingEnqueuedBeforeRegistration ==
    \A c \in Conns : \A i \in 1..Len(sent[c]) : Pos(sent[c][i]) > regAt[c]

\* C6: no event dequeued (its fan-out started) before a connection was
\* registered is sent to it.
C6_NothingDequeuedBeforeRegistration ==
    \A c \in Conns : \A i \in 1..Len(sent[c]) : Pos(sent[c][i]) > deqAt[c]

\* C6 witness: a connection registered after an event had been dequeued was
\* sent a later event
C6_LateConnectionServed ==
    \E c \in Conns : deqAt[c] >= 1 /\ sent[c] # <<>>

\* C11: a disconnect of a connection that is not in the registry (already
\* removed by the broadcaster after a failed send) leaves the registry as it
\* is and the handler ends normally; a second disconnect of any connection
\* changes nothing.
C11_DisconnectIdempotent ==
    [][/\ \A c \in Conns :
            (hpc[c] = "receiving" /\ hpc'[c] = "done" /\ c \notin active) =>
                active' = active
       /\ \A c \in Conns :
            /\ c \notin active => disconnect(active, c) = active
            /\ disconnect(disconnect(active, c), c) = disconnect(active, c)]_vars

\* C11 witness: a connection removed by the broadcaster after a failed send
\* was disconnected again by its receive loop, next to one still registered
C11_RemovedTwice ==
    \E c \in failed :
        hpc[c] = "done" /\ c \notin active /\ active # {}

\* C12: a producer's enqueue step is enabled, and puts the event into the
\* queue, whatever the queue holds and wherever the broadcaster is.
C12_EnqueueNeverBlocks ==
    phase = "up" =>
        /\ (simTask = "running" /\ counter <= MaxEvents) =>
              ENABLED simulate_tweets
        /\ ready # <<>> =>
              ENABLED (put_nowait /\ tweet_queue' = Append(tweet_queue,
                                                            Head(ready)))

\* C12 witness: an event has not been fanned out yet (it waits in the queue
\* or the broadcaster is held in a send) and the simulator has another one
\* to enqueue
C12_ProducerAheadOfBroadcaster ==
    /\ phase = "up" /\ simTask = "running" /\ counter <= MaxEvents
    /\ (tweet_queue # <<>> \/ bpc = "send")

\* C13: an event is sent only to members of the snapshot taken when its
\* fan-out started, and a connect or disconnect during the fan-out leaves the
\* snapshot and the rest of the iteration as they are.
C13_FanOutOverSnapshot ==
    [][/\ \A c \in Conns :
            sent'[c] # sent[c] =>
                c \in snapshot /\ sent'[c] = Append(sent[c], msg)
       /\ (bpc = "send" /\ nDeq' = nDeq /\ sent' = sent /\ failed' = failed) =>
            snap' = snap /\ snapshot' = snapshot /\ msg' = msg]_vars

\* C13 witness: while a fan-out waits in a send, a connection outside its
\* snapshot is registered and a member of the snapshot has been removed
C13_RegistryChangedDuringFanOut ==
    /\ bpc = "send"
    /\ active \ snapshot # {}
    /\ snapshot \ active # {}

\* C14: on_tweet changes neither the queue nor the registry, it only hands
\* the event to the loop; the events reach the queue in the order on_tweet
\* produced them.
C14_AdapterHandsOverInOrder ==
    [][/\ nTweets' # nTweets =>
            /\ tweet_queue' = tweet_queue /\ enq' = enq /\ active' = active
            /\ ready' = Append(ready, <<"tweet", nTweets'>>)
       /\ liveThread' # "none" =>
            enq' \o ready' = [k \in 1..nTweets' |-> <<"tweet", k>>]]_vars

\* C14 witness: two tweets were handed over before the loop enqueued both
C14_TwoTweetsEnqueued ==
    /\ nTweets = 2 /\ Len(enq) = 2 /\ ready = <<>>
    /\ enq[1] = <<"tweet", 1>>

\* C15: while the process is up the broadcaster task is running, and every
\* enqueued event is eventually dequeued and its fan-out ended (unless the
\* process is shut down first).
C15_BroadcasterKeepsDraining ==
    /\ [](phase = "up" => broadcaster = "running")
    /\ \A k \in 1..MaxEvents :
          (Len(enq) >= k)
              ~> (\/ nDeq > k
                  \/ (nDeq = k /\ bpc = "get")
                  \/ phase = "down")

\* C15 witness: a send failed during the fan-out of the first event and the
\* second event was fanned out all the same
C15_DrainedAfterFailure ==
    /\ phase = "up" /\ failed # {}
    /\ nDeq = 2 /\ bpc = "get" /\ tweet_queue = <<>>
    /\ \E c \in Conns : sent[c] = <<enq[1], enq[2]>>

\* C16: a handler that has ended has removed its connection, no fan-out that
\* starts afterwards selects it, and a connection whose client is gone is
\* eventually out of the registry with its handler ended (unless the process
\* is shut down first).
C16_DisconnectedConnectionRemoved ==
    /\ [](\A c \in Conns : hpc[c] = "done" => c \notin active)
    /\ [][\A c \in Conns :
            (nDeq' # nDeq /\ hpc[c] = "done") => c \notin snapshot']_vars
    /\ \A c \in Conns :
          (peer[c] = "gone" /\ hpc[c] \in {"accepted", "receiving"})
              ~> ((hpc[c] = "done" /\ c \notin active) \/ phase = "down")

\* C16 witness: a fan-out started after a handler ended whose connection no
\* send had failed on
C16_FanOutAfterDisconnect ==
    \E c \in Conns :
        /\ hpc[c] = "done" /\ c \notin failed /\ sent[c] # <<>>
        /\ bpc = "send" /\ c \notin snapshot

\* C17: the dequeue of an event with nobody registered takes the event off
\* the queue, sends nothing, logs nothing and leaves the broadcaster at
\* queue.get(); a send only ever carries the event dequeued last, so an
\* event consumed earlier reaches nobody later.
C17_EmptyRegistryDropsEvent ==
    [][/\ (nDeq' = nDeq + 1 /\ active = {}) =>
            /\ tweet_queue' = Tail(tweet_queue)
            /\ bpc' = "get"
            /\ sent' = sent
            /\ log' = log
            /\ broadcaster' = broadcaster
       /\ \A c \in Conns :
            sent'[c] # sent[c] =>
                bpc = "send" /\ sent'[c] = Append(sent[c], enq[nDeq])]_vars

\* C17 witness: the first event went to nobody without any failed send, and
\* a client that connected later was sent the second event only
C17_DroppedThenLateClient ==
    \E c \in Conns :
        /\ failed = {} /\ nDeq = 2
        /\ sent[c] = <<enq[2]>>
        /\ \A d \in Conns \ {c} : sent[d] = <<>>

\* the persistence layer raised during the request that got response r,
\* made with rows in the table
Raised(r, rows) ==
    /\ r.email \notin {NoEmail, ""}
    /\ \/ r.fault = "lookup"
       \/ r.fault \in {"commit", "refresh"} /\ Count(rows, r.email) = 0

\* C18: a request during which the persistence layer raises gets the 500
\* response, schedules no welcome mail and is not tried again (a failed
\* lookup or commit leaves no row); 500 is given for nothing else, and the
\* validation and conflict responses go out as raised.
C18_PersistenceFailureIs500 ==
    [][NewResponse =>
          LET r == Last(responses') IN
            /\ Raised(r, subscribers) =>
                  /\ r.status = 500 /\ r.detail = "Server error during subscription."
                  /\ tasks' = tasks
                  /\ r.fault # "refresh" => subscribers' = subscribers
                  /\ Len(subscribers') <= Len(subscribers) + 1
            /\ r.status = 500 => Raised(r, subscribers)
            /\ r.email \in {NoEmail, ""} =>
                  r.status = 422 /\ r.detail = "Email is required."
            /\ (r.email \notin {NoEmail, ""} /\ r.fault # "lookup"
                /\ Count(subscribers, r.email) > 0) =>
                  r.status = 400 /\ r.detail = "Email already subscribed."]_vars

\* C18 witness: one request got the server error and another, for an email
\* already subscribed, the conflict
C18_ServerErrorAndConflict ==
    \E i, j \in 1..Len(responses) :
        /\ responses[i].status = 500
        /\ responses[j].status = 400

\* C19: the simulator's k-th event is sim-k, the counter is one ahead of the
\* number of events enqueued, and a connection is sent a run of consecutive
\* events, each as a message of its own.
C19_SimulatorIdsCountUp ==
    simTask # "none" =>
        /\ counter = Len(enq) + 1
        /\ enq = [k \in 1..Len(enq) |-> <<"sim", k>>]
        /\ \A c \in Conns : \A i \in 1..Len(sent[c]) :
              /\ sent[c][i][1] = "sim"
              /\ i > 1 => sent[c][i][2] = sent[c][i - 1][2] + 1

\* C19 witness: a connected client was sent sim-1, then sim-2
C19_Sim1ThenSim2 ==
    \E c \in Conns : sent[c] = << <<"sim", 1>>, <<"sim", 2>> >>

\* the number of welcome mails scheduled so far for email e
Scheduled(e) ==
    Cardinality({i \in 1..Len(tasks) : tasks[i] = e})
    + Cardinality({i \in 1..Len(trace) :
                       trace[i].op = "mail" /\ trace[i].email = e})

\* C20: a welcome mail is scheduled only by a request that committed a new
\* row and was acknowledged, and only with mail configured; a rejected
\* request schedules none, and no email has more than one scheduled.
C20_OneWelcomePerNewSubscriber ==
    [][/\ NewResponse =>
            LET r == Last(responses') IN
              IF r.status = 200 /\ conf
              THEN /\ tasks' = Append(tasks, r.email)
                   /\ Len(subscribers') = Len(subscribers) + 1
                   /\ Last(subscribers').email = r.email
              ELSE tasks' = tasks
       /\ \A e \in Emails : Scheduled(e)' <= 1
       /\ ~conf => tasks' = <<>>]_vars

\* C20 witness: a subscription scheduled its welcome mail, and a repeated
\* and an empty request scheduled none
C20_OneScheduledTwoRejected ==
    /\ Len(tasks) = 1
    /\ \E i, j \in 1..Len(responses) :
          /\ responses[i].status = 400
          /\ responses[j].status = 422

====
